---- MODULE Spec2Model ----
(***************************************************************************)
(* youtube_feed.py as a state machine.                                     *)
(*                                                                         *)
(* A Python str is a sequence of one-character strings, so that            *)
(* re.fullmatch, str.split and str comparison are computed character by    *)
(* character.  The text of a timestamp is a sequence holding one lexeme    *)
(* (for instance "02T01+01": day 2, 01:00, UTC offset +01); the feed's     *)
(* timestamps carry a UTC offset, as YouTube's Atom feed writes them, and   *)
(* a parsed datetime is the instant it denotes, in hours.                  *)
(***************************************************************************)
EXTENDS Integers, Sequences, FiniteSets, TLC

VARIABLES pc, caller, config, since, i, url, args, feed, page, lineNo,
          canonical, doc, k, yielded, call, n, videos, j, iters, calls,
          raised, trace

vars == <<pc, caller, config, since, i, url, args, feed, page, lineNo,
          canonical, doc, k, yielded, call, n, videos, j, iters, calls,
          raised, trace>>

(***************************************************************************)
(* Bounds of the model.                                                    *)
(***************************************************************************)
MaxFeeds == 2
MaxCalls == 2
MaxN == 6

(***************************************************************************)
(* Python values.                                                          *)
(***************************************************************************)
None == <<"None">>

Truthy(x) == x # None /\ x # <<>>

Drop(s, m) == SubSeq(s, m + 1, Len(s))

Take(s, m) == SubSeq(s, 1, IF m < Len(s) THEN m ELSE Len(s))

\* The characters the model uses, in code point order.
Alphabet ==
    <<"+", "-", ".", "/", "0", "1", "2", "3", "4", "5", "6", "7", "8", "9",
      ":", "=", "?", "@", "A", "B", "C", "D", "E", "F", "G", "H", "I", "J",
      "K", "L", "M", "N", "O", "P", "Q", "R", "S", "T", "U", "V", "W", "X",
      "Y", "Z", "_", "a", "b", "c", "d", "e", "f", "g", "h", "i", "j", "k",
      "l", "m", "n", "o", "p", "q", "r", "s", "t", "u", "v", "w", "x", "y",
      "z">>

Ord(c) == CHOOSE m \in 1..Len(Alphabet) : Alphabet[m] = c

\* str.__lt__: the first differing character decides, a proper prefix is less.
RECURSIVE StrLess(_, _)
StrLess(s, t) ==
    IF t = <<>> THEN FALSE
    ELSE IF s = <<>> THEN TRUE
    ELSE IF s[1] # t[1] THEN Ord(s[1]) < Ord(t[1])
    ELSE StrLess(Tail(s), Tail(t))

(***************************************************************************)
(* re.fullmatch(r'https?://(?:www.?)youtube.com/playlist\?list=(.+)', url) *)
(***************************************************************************)
Lit(c) == [of |-> "lit", c |-> c, optional |-> FALSE]
Dot == [of |-> "any", c |-> "", optional |-> FALSE]
Opt(e) == [e EXCEPT !.optional = TRUE]
Lits(s) == [m \in 1..Len(s) |-> Lit(s[m])]

\* The pattern up to its capturing group; (?:www.?) is the literal www and
\* one optional arbitrary character, and the unescaped dot of youtube.com is
\* one arbitrary character.
PlaylistPattern ==
    Lits(<<"h", "t", "t", "p">>) \o <<Opt(Lit("s"))>>
    \o Lits(<<":", "/", "/">>)
    \o Lits(<<"w", "w", "w">>) \o <<Opt(Dot)>>
    \o Lits(<<"y", "o", "u", "t", "u", "b", "e">>) \o <<Dot>>
    \o Lits(<<"c", "o", "m", "/", "p", "l", "a", "y", "l", "i", "s", "t">>)
    \o Lits(<<"?", "l", "i", "s", "t", "=">>)

Accepts(e, ch) == ch # "\n" /\ (e.of = "any" \/ e.c = ch)

\* Backtracking match of pat[m..] at offset pos of s, the greedy choice
\* first; the value is the offset where the capturing group (.+) starts,
\* or -1.  The group takes the rest of s, which must not be empty.
RECURSIVE MatchFrom(_, _, _, _)
MatchFrom(pat, m, s, pos) ==
    IF m > Len(pat)
    THEN IF pos < Len(s) /\ \A q \in (pos + 1)..Len(s) : s[q] # "\n"
         THEN pos ELSE -1
    ELSE LET e == pat[m]
             here == pos < Len(s) /\ Accepts(e, s[pos + 1])
             taken == IF here THEN MatchFrom(pat, m + 1, s, pos + 1) ELSE -1
         IN  IF e.optional /\ taken = -1
             THEN MatchFrom(pat, m + 1, s, pos)
             ELSE taken

\* m[1] of the match, or None when the URL does not match.
MatchPlaylist(u) ==
    LET p == MatchFrom(PlaylistPattern, 1, u, 0)
    IN  IF p = -1 THEN None ELSE Drop(u, p)

(***************************************************************************)
(* CanonicalLinkParser.  A line of a page is the sequence of start tags     *)
(* whose parsing completes when that line is fed; a tag is its name and    *)
(* its list of (name, value) attributes, a valueless attribute being None. *)
(***************************************************************************)
KeyError == <<"KeyError">>

Has(attrs, name) == \E m \in 1..Len(attrs) : attrs[m][1] = name

\* dict(attrs)[name]: the last pair of that name wins.
Get(attrs, name) ==
    LET last == CHOOSE m \in 1..Len(attrs) :
                    /\ attrs[m][1] = name
                    /\ \A q \in (m + 1)..Len(attrs) : attrs[q][1] # name
    IN  attrs[last][2]

S_canonical == <<"c", "a", "n", "o", "n", "i", "c", "a", "l">>

\* parser.canonical after handle_starttag, or KeyError.
handle_starttag(canon, t) ==
    IF t.tag = "link"
    THEN IF Has(t.attrs, "rel") /\ Get(t.attrs, "rel") = S_canonical
         THEN IF Has(t.attrs, "href") THEN Get(t.attrs, "href") ELSE KeyError
         ELSE canon
    ELSE canon

\* parser.feed(line): the start tags in order; an exception ends it.
RECURSIVE ParserFeed(_, _)
ParserFeed(canon, line) ==
    IF line = <<>> THEN canon
    ELSE LET c == handle_starttag(canon, Head(line))
         IN  IF c = KeyError THEN KeyError ELSE ParserFeed(c, Tail(line))

\* canonical.split('/')[-1]
RECURSIVE LastSegment(_)
LastSegment(s) ==
    IF \E m \in 1..Len(s) : s[m] = "/"
    THEN LastSegment(Tail(s))
    ELSE s

(***************************************************************************)
(* Feed documents.  An entry lists its title, link and published elements  *)
(* (what getElementsByTagName returns); an element has child nodes and     *)
(* attributes.                                                             *)
(***************************************************************************)
RECURSIVE get_node_text(_)
get_node_text(children) ==
    IF children = <<>> THEN <<>>
    ELSE (IF Head(children).type = "text" THEN Head(children).data ELSE <<>>)
         \o get_node_text(Tail(children))

\* datetime.fromisoformat: the instant, in hours, or -1 for ValueError.
IsoInstant ==
    [lex \in {"01T00+00", "02T00+00", "02T01+01", "03T00+00", "04T00+00",
              "05T00+00", "06T00+00", "07T00+00"} |->
        CASE lex = "01T00+00" -> 24
          [] lex = "02T00+00" -> 48
          [] lex = "02T01+01" -> 48
          [] lex = "03T00+00" -> 72
          [] lex = "04T00+00" -> 96
          [] lex = "05T00+00" -> 120
          [] lex = "06T00+00" -> 144
          [] lex = "07T00+00" -> 168]

fromisoformat(text) ==
    IF Len(text) = 1 /\ text[1] \in DOMAIN IsoInstant
    THEN IsoInstant[text[1]]
    ELSE -1

Raise(e) == [err |-> e, val |-> <<>>]
Yield(v) == [err |-> "", val |-> v]

\* The loop body taking the first element of each kind instead of unpacking
\* exactly one.
IterEntryFirst(entry) ==
    IF Len(entry.title) < 1 THEN Raise("IndexError")
    ELSE IF Len(entry.link) < 1 THEN Raise("IndexError")
    ELSE IF ~Has(entry.link[1].attrs, "href") THEN Raise("KeyError")
    ELSE IF Len(entry.published) < 1 THEN Raise("IndexError")
    ELSE IF fromisoformat(get_node_text(entry.published[1].children)) = -1
         THEN Raise("ValueError")
    ELSE Yield(<<fromisoformat(get_node_text(entry.published[1].children)),
                 get_node_text(entry.title[1].children),
                 Get(entry.link[1].attrs, "href")>>)

\* One pass of the loop body of Feed.__iter__: the triple, or the exception.
IterEntry(entry) ==
    IF Len(entry.title) # 1 THEN Raise("ValueError")
    ELSE IF Len(entry.link) # 1 THEN Raise("ValueError")
    ELSE IF ~Has(entry.link[1].attrs, "href") THEN Raise("KeyError")
    ELSE IF Len(entry.published) # 1 THEN Raise("ValueError")
    ELSE IF fromisoformat(get_node_text(entry.published[1].children)) = -1
         THEN Raise("ValueError")
    ELSE Yield(<<fromisoformat(get_node_text(entry.published[1].children)),
                 get_node_text(entry.title[1].children),
                 Get(entry.link[1].attrs, "href")>>)

(***************************************************************************)
(* get_last_videos                                                         *)
(***************************************************************************)
\* tuple.__lt__ on (published, title, url).
TupleLess(a, b) ==
    IF a[1] # b[1] THEN a[1] < b[1]
    ELSE IF a[2] # b[2] THEN StrLess(a[2], b[2])
    ELSE IF a[3] # b[3] THEN StrLess(a[3], b[3])
    ELSE FALSE

\* x placed after the elements of the descending list s that are not less
\* than it.
RECURSIVE InsertDesc(_, _)
InsertDesc(s, x) ==
    IF s = <<>> THEN <<x>>
    ELSE IF TupleLess(Head(s), x) THEN <<x>> \o s
    ELSE <<Head(s)>> \o InsertDesc(Tail(s), x)

Reverse(s) == [m \in 1..Len(s) |-> s[Len(s) + 1 - m]]

\* sorted(feed): reverse=True forgotten.
RECURSIVE SortedForward(_)
SortedForward(s) ==
    IF s = <<>> THEN <<>>
    ELSE Reverse(InsertDesc(Reverse(SortedForward(SubSeq(s, 1, Len(s) - 1))),
                            s[Len(s)]))

\* list(feed): the sort forgotten.
Unsorted(s) == s

\* sorted(feed, reverse=True)
RECURSIVE SortedReverse(_)
SortedReverse(s) ==
    IF s = <<>> THEN <<>>
    ELSE InsertDesc(SortedReverse(SubSeq(s, 1, Len(s) - 1)), s[Len(s)])

Slice(s, m) == Take(s, m)

get_last_videos(entries, m) == Slice(SortedReverse(entries), m)

DefaultN == 5

(***************************************************************************)
(* Feed.__init__                                                           *)
(***************************************************************************)
S_feeds == <<"h", "t", "t", "p", "s", ":", "/", "/", "w", "w", "w", ".", "y", "o", "u", "t", "u", "b", "e", ".", "c", "o", "m", "/", "f", "e", "e", "d", "s", "/", "v", "i", "d", "e", "o", "s", ".", "x", "m", "l", "?">>
S_channel_id == <<"c", "h", "a", "n", "n", "e", "l", "_", "i", "d", "=">>
S_playlist_id == <<"p", "l", "a", "y", "l", "i", "s", "t", "_", "i", "d", "=">>

\* Line 57 as an at-most-one test: only both arguments together are refused.
InitRaisesOnlyBoth(channel_id, playlist_id) ==
    channel_id # None /\ playlist_id # None

\* The test of line 57.
InitRaises(channel_id, playlist_id) ==
    Cardinality({channel_id = None, playlist_id = None}) # 2

\* Lines 60-63 with the channel query used for both kinds of feed.
FeedUrlOneQuery(channel_id, playlist_id) ==
    IF channel_id # None
    THEN S_feeds \o S_channel_id \o channel_id
    ELSE S_feeds \o S_channel_id \o playlist_id

\* self.feed_url, lines 60-63.
FeedUrl(channel_id, playlist_id) ==
    IF channel_id # None
    THEN S_feeds \o S_channel_id \o channel_id
    ELSE S_feeds \o S_playlist_id \o playlist_id

NoFeed == [set |-> FALSE, feed_url |-> None]

(***************************************************************************)
(* The web the program talks to: the configured URLs, the page each one    *)
(* serves and the document each feed endpoint serves.                      *)
(***************************************************************************)
S_https == <<"h", "t", "t", "p", "s", ":", "/", "/">>
S_http == <<"h", "t", "t", "p", ":", "/", "/">>
S_www == <<"w", "w", "w", ".">>
S_youtube == <<"y", "o", "u", "t", "u", "b", "e", ".", "c", "o", "m", "/">>
S_playlist == <<"p", "l", "a", "y", "l", "i", "s", "t", "?", "l", "i", "s", "t", "=">>
S_channel == <<"c", "h", "a", "n", "n", "e", "l", "/">>

PL1 == <<"P", "L", "1">>
PL2 == <<"P", "L", "2">>
UC1 == <<"U", "C", "1">>
UC2 == <<"U", "C", "2">>
UC3 == <<"U", "C", "3">>
B1 == <<"B", "1">>
B2 == <<"B", "2">>
B3 == <<"B", "3">>

\* https://www.youtube.com/playlist?list=PL1
UrlPlaylist == S_https \o S_www \o S_youtube \o S_playlist \o PL1
\* http://youtube.com/playlist?list=PL1
UrlBare == S_http \o S_youtube \o S_playlist \o PL1
\* https://wwwyoutube_com/playlist?list=PL2
UrlLookalike ==
    S_https \o <<"w", "w", "w">> \o <<"y", "o", "u", "t", "u", "b", "e">> \o <<"_">> \o <<"c", "o", "m", "/">> \o S_playlist \o PL2
\* https://www.youtube.com/@a, @b, @c, @d
UrlChanA == S_https \o S_www \o S_youtube \o <<"@", "a">>
UrlChanB == S_https \o S_www \o S_youtube \o <<"@", "b">>
UrlChanC == S_https \o S_www \o S_youtube \o <<"@", "c">>
UrlChanD == S_https \o S_www \o S_youtube \o <<"@", "d">>

UrlPool ==
    {UrlPlaylist, UrlBare, UrlLookalike, UrlChanA, UrlChanB, UrlChanC, UrlChanD}

Tag(name, attrs) == [tag |-> name, attrs |-> attrs]
ChannelHref(id) == S_https \o S_www \o S_youtube \o S_channel \o id
S_stylesheet == <<"s", "t", "y", "l", "e", "s", "h", "e", "e", "t">>

PageA ==
    << <<Tag("meta", <<>>)>>,
       <<Tag("link", <<<<"rel", S_stylesheet>>, <<"href", <<"x">>>>>>),
         Tag("link", <<<<"rel", S_canonical>>, <<"href", <<>>>>>>)>>,
       <<Tag("link", <<<<"rel", S_canonical>>, <<"href", ChannelHref(UC1)>>>>),
         Tag("link", <<<<"href", ChannelHref(UC2)>>, <<"rel", S_canonical>>>>)>>,
       <<Tag("link", <<<<"rel", S_canonical>>, <<"href", ChannelHref(UC3)>>>>)>> >>

PageB ==
    << <<Tag("meta", <<>>)>>,
       <<Tag("link", <<<<"rel", S_stylesheet>>, <<"href", <<"x">>>>>>),
         Tag("a", <<<<"rel", S_canonical>>, <<"href", ChannelHref(UC1)>>>>)>>,
       <<Tag("link", <<<<"rel", S_canonical>>, <<"href", None>>>>),
         Tag("link", <<<<"href", ChannelHref(UC1)>>>>)>> >>

PageC ==
    << <<>>,
       <<Tag("link", <<<<"rel", S_canonical>>>>)>>,
       <<Tag("link", <<<<"rel", S_canonical>>, <<"href", ChannelHref(UC2)>>>>)>> >>

PageD ==
    << <<Tag("link", <<<<"rel", S_stylesheet>>, <<"href", ChannelHref(UC1)>>>>)>>,
       <<Tag("link", <<<<"rel", S_stylesheet>>, <<"rel", S_canonical>>,
                       <<"href", ChannelHref(B2)>>>>)>> >>

PageBare ==
    << <<Tag("link", <<<<"rel", S_canonical>>,
                       <<"href", S_https \o S_www \o S_youtube
                                 \o S_playlist \o PL1>>>>)>>,
       <<Tag("meta", <<>>)>> >>

NoPage == << <<Tag("404", <<>>)>> >>

\* The page a URL serves; NoPage stands for an HTTP error.
PageOf(u) ==
    CASE u = UrlChanA -> PageA
      [] u = UrlChanB -> PageB
      [] u = UrlChanC -> PageC
      [] u = UrlChanD -> PageD
      [] u = UrlBare -> PageBare
      [] OTHER -> NoPage

Text(s) == [type |-> "text", data |-> s]
Child(s) == [type |-> "element", data |-> s]
Elem(children, attrs) == [children |-> children, attrs |-> attrs]

Entry(title, href, lex) ==
    [title |-> <<Elem(<<Text(title)>>, <<>>)>>,
     link |-> <<Elem(<<>>, <<<<"rel", <<"a">>>>, <<"href", href>>>>)>>,
     published |-> <<Elem(<<Text(<<lex>>)>>, <<>>)>>]

DocBig ==
    <<Entry(<<"e">>, <<"v", "5">>, "05T00+00"),
      Entry(<<"g">>, <<"v", "7">>, "07T00+00"),
      Entry(<<"a">>, <<"v", "1">>, "01T00+00"),
      Entry(<<"c">>, <<"v", "3">>, "03T00+00"),
      Entry(<<"f">>, <<"v", "6">>, "06T00+00"),
      Entry(<<"b">>, <<"v", "2">>, "02T00+00"),
      Entry(<<"d">>, <<"v", "4">>, "04T00+00")>>

DocTies ==
    <<Entry(<<"a">>, <<"v", "2">>, "02T00+00"),
      [title |-> <<Elem(<<Text(<<"a">>), Child(<<"i">>), Text(<<"b">>)>>, <<>>)>>,
       link |-> <<Elem(<<>>, <<<<"href", <<"v", "1">>>>>>)>>,
       published |-> <<Elem(<<Text(<<"02T01+01">>)>>, <<>>)>>],
      Entry(<<"a">>, <<"v", "3">>, "03T00+00"),
      Entry(<<"a">>, <<"v", "2", "0">>, "02T01+01")>>

\* The second entry has two title elements.
DocB1 ==
    <<Entry(<<"a">>, <<"v", "1">>, "01T00+00"),
      [Entry(<<"b">>, <<"v", "2">>, "02T00+00") EXCEPT
          !.title = <<Elem(<<Text(<<"b">>)>>, <<>>),
                      Elem(<<Text(<<"c">>)>>, <<>>)>>],
      Entry(<<"c">>, <<"v", "3">>, "03T00+00")>>

\* The second entry's link has no href.
DocB2 ==
    <<Entry(<<"a">>, <<"v", "1">>, "04T00+00"),
      [Entry(<<"b">>, <<"v", "2">>, "02T00+00") EXCEPT
          !.link = <<Elem(<<>>, <<<<"rel", <<"a">>>>>>)>>]>>

\* The first entry's published text is a date that is not in ISO format; the
\* second has no published element.
DocB3 ==
    <<[Entry(<<"a">>, <<"v", "1">>, "01T00+00") EXCEPT
          !.published = <<Elem(<<Text(<<"Mon, 01 Jan">>)>>, <<>>)>>],
      [Entry(<<"b">>, <<"v", "2">>, "02T00+00") EXCEPT !.published = <<>>]>>

NoDoc == <<[title |-> <<>>, link |-> <<>>, published |-> <<>>]>>

ChannelIds == {None, UC2, B1, B2}
PlaylistIds == {None, PL1, B3}

\* The document a feed endpoint serves; NoDoc stands for an HTTP error.
DocOf(u) ==
    CASE u = FeedUrl(None, PL1) -> DocBig
      [] u = FeedUrl(UC2, None) -> DocTies
      [] u = FeedUrl(B1, None) -> DocB1
      [] u = FeedUrl(B2, None) -> DocB2
      [] u = FeedUrl(None, B3) -> DocB3
      [] u = FeedUrl(None, PL2) -> <<>>
      [] OTHER -> NoDoc

SinceArgs == {None, <<>>, <<"05T00+00">>}
SinceConfigs == {None, <<>>, <<"03T00+00">>}

FeedLists ==
    UNION {[1..m -> UrlPool] : m \in 0..MaxFeeds}

(***************************************************************************)
(* The state machine.  pc is the position of the running call; trace is    *)
(* everything the process has done that the outside can see, in order:     *)
(* the URLs it requested and what it printed, each tagged with the index   *)
(* of the configured feed main was working on (0 outside main).            *)
(***************************************************************************)
Event(op, what, val) == [op |-> op, feed |-> i, what |-> what, val |-> val]

NoSince == [none |-> TRUE, at |-> 0]

\* a or b
PyOr(a, b) == IF Truthy(a) THEN a ELSE b

\* Line 127 with a strict comparison.
KeepLater(cutoff, published) == cutoff.none \/ published > cutoff.at

\* The test of line 127.
Keep(cutoff, published) == cutoff.none \/ published >= cutoff.at

Init ==
    /\ pc = "idle"
    /\ raised = ""
    /\ caller = "none"
    /\ config = [feeds |-> <<>>, since |-> None, arg_since |-> None]
    /\ since = NoSince
    /\ i = 0
    /\ url = None
    /\ args = [channel_id |-> None, playlist_id |-> None]
    /\ feed = NoFeed
    /\ page = <<>>
    /\ lineNo = 0
    /\ canonical = None
    /\ doc = <<>>
    /\ k = 0
    /\ yielded = <<>>
    /\ call = ""
    /\ n = 0
    /\ videos = <<>>
    /\ j = 0
    /\ iters = 0
    /\ calls = 0
    /\ raised = ""
    /\ trace = <<>>

\* An exception nothing catches: the process ends where it was raised.
Throw(e) == raised' = e /\ pc' = pc

\* main, lines 108-118: the configuration and the cutoff (the locale, which
\* only changes how dates are written, is left out).
Main ==
    /\ pc = "idle"
    /\ raised = ""
    /\ \E fl \in FeedLists, a \in SinceArgs, c \in SinceConfigs :
          LET raw == PyOr(a, c)
          IN  /\ config' = [feeds |-> fl, since |-> c, arg_since |-> a]
              /\ IF raw = None
                 THEN since' = NoSince /\ pc' = "loop" /\ raised' = raised
                 ELSE IF fromisoformat(raw) = -1
                 THEN since' = since /\ Throw("ValueError")
                 ELSE /\ since' = [none |-> FALSE, at |-> fromisoformat(raw)]
                      /\ pc' = "loop" /\ raised' = raised
    /\ caller' = "main"
    /\ UNCHANGED <<i, url, args, feed, page, lineNo, canonical, doc, k,
                   yielded, call, n, videos, j, iters, calls, trace>>

\* main, lines 120-124: the next configured feed and its header.
PrintHeader ==
    /\ pc = "loop"
    /\ raised = ""
    /\ i < Len(config.feeds)
    /\ i' = i + 1
    /\ url' = config.feeds[i + 1]
    /\ trace' = Append(trace, [op |-> "print", feed |-> i + 1,
                               what |-> "header", val |-> config.feeds[i + 1]])
    /\ pc' = "from_url"
    /\ UNCHANGED <<caller, config, since, args, feed, page, lineNo, canonical,
                   doc, k, yielded, call, n, videos, j, iters, calls, raised>>

\* main, line 120: the loop is over.
Exit ==
    /\ pc = "loop"
    /\ raised = ""
    /\ i = Len(config.feeds)
    /\ pc' = "exit"
    /\ UNCHANGED <<caller, config, since, i, url, args, feed, page, lineNo,
                   canonical, doc, k, yielded, call, n, videos, j, iters,
                   calls, raised, trace>>

\* Feed.from_url, lines 67-69, and the first lines of get_channel_id.
FromUrl ==
    /\ pc = "from_url"
    /\ raised = ""
    /\ LET m == MatchPlaylist(url)
       IN  IF m # None
           THEN /\ args' = [channel_id |-> None, playlist_id |-> m]
                /\ pc' = "init"
                /\ UNCHANGED <<canonical, lineNo, page>>
           ELSE /\ canonical' = None
                /\ lineNo' = 0
                /\ page' = <<>>
                /\ pc' = "request"
                /\ args' = args
    /\ UNCHANGED <<caller, config, since, i, url, feed, doc, k, yielded, call,
                   n, videos, j, iters, calls, raised, trace>>

\* request(channel_url): urlopen answers with the page or fails.
Request ==
    /\ pc = "request"
    /\ raised = ""
    /\ trace' = Append(trace, Event("request", "page", url))
    /\ \/ /\ PageOf(url) # NoPage
          /\ page' = PageOf(url)
          /\ pc' = "feed_line"
          /\ raised' = raised
       \/ /\ Throw("URLError")
          /\ page' = page
    /\ UNCHANGED <<caller, config, since, i, url, args, feed, lineNo,
                   canonical, doc, k, yielded, call, n, videos, j, iters,
                   calls>>

\* Lines 75-78 without the break: every line of the page is fed.
FeedLineNoBreak ==
    /\ pc = "feed_line"
    /\ raised = ""
    /\ lineNo < Len(page)
    /\ lineNo' = lineNo + 1
    /\ LET c == ParserFeed(canonical, page[lineNo + 1])
       IN  IF c = KeyError
           THEN Throw("KeyError") /\ canonical' = canonical
           ELSE /\ canonical' = c
                /\ pc' = "feed_line"
                /\ raised' = raised
    /\ UNCHANGED <<caller, config, since, i, url, args, feed, page, doc, k,
                   yielded, call, n, videos, j, iters, calls, trace>>

\* get_channel_id, lines 75-78: one line of the page; break once a
\* canonical link is known.
FeedLine ==
    /\ pc = "feed_line"
    /\ raised = ""
    /\ lineNo < Len(page)
    /\ lineNo' = lineNo + 1
    /\ LET c == ParserFeed(canonical, page[lineNo + 1])
       IN  IF c = KeyError
           THEN Throw("KeyError") /\ canonical' = canonical
           ELSE /\ canonical' = c
                /\ pc' = IF Truthy(c) THEN "check" ELSE "feed_line"
                /\ raised' = raised
    /\ UNCHANGED <<caller, config, since, i, url, args, feed, page, doc, k,
                   yielded, call, n, videos, j, iters, calls, trace>>

\* get_channel_id, line 75: the page has no more lines.
EndOfPage ==
    /\ pc = "feed_line"
    /\ raised = ""
    /\ lineNo = Len(page)
    /\ pc' = "check"
    /\ UNCHANGED <<caller, config, since, i, url, args, feed, page, lineNo,
                   canonical, doc, k, yielded, call, n, videos, j, iters,
                   calls, raised, trace>>

\* get_channel_id, lines 80-83, and the call of line 69.
ReturnChannelId ==
    /\ pc = "check"
    /\ raised = ""
    /\ IF ~Truthy(canonical)
       THEN Throw("ValueError") /\ args' = args
       ELSE /\ args' = [channel_id |-> LastSegment(canonical),
                        playlist_id |-> None]
            /\ pc' = "init"
            /\ raised' = raised
    /\ UNCHANGED <<caller, config, since, i, url, feed, page, lineNo,
                   canonical, doc, k, yielded, call, n, videos, j, iters,
                   calls, trace>>

\* Feed.__init__, lines 56-63.
FeedInit ==
    /\ pc = "init"
    /\ raised = ""
    /\ IF InitRaises(args.channel_id, args.playlist_id)
       THEN Throw("ValueError") /\ UNCHANGED <<feed, iters>>
       ELSE /\ feed' = [set |-> TRUE,
                        feed_url |-> FeedUrl(args.channel_id, args.playlist_id)]
            /\ iters' = 0
            /\ pc' = IF caller = "main" THEN "get_last" ELSE "ready"
            /\ raised' = raised
    /\ UNCHANGED <<caller, config, since, i, url, args, page, lineNo,
                   canonical, doc, k, yielded, call, n, videos, j, calls,
                   trace>>

\* A program that imports the module calls Feed(channel_id=c, playlist_id=p).
ClientNew ==
    /\ pc = "idle"
    /\ raised = ""
    /\ \E c \in ChannelIds, p \in PlaylistIds :
          args' = [channel_id |-> c, playlist_id |-> p]
    /\ caller' = "client"
    /\ pc' = "init"
    /\ UNCHANGED <<config, since, i, url, feed, page, lineNo, canonical, doc,
                   k, yielded, call, n, videos, j, iters, calls, raised,
                   trace>>

\* A program that imports the module calls Feed.from_url(u).
ClientFromUrl ==
    /\ pc = "idle"
    /\ raised = ""
    /\ \E u \in UrlPool : url' = u
    /\ caller' = "client"
    /\ pc' = "from_url"
    /\ UNCHANGED <<config, since, i, args, feed, page, lineNo, canonical, doc,
                   k, yielded, call, n, videos, j, iters, calls, raised,
                   trace>>

\* The feed starts to be iterated: the generator of __iter__ is created and
\* its body begins to run.
StartIter(what, m) ==
    /\ call' = what
    /\ n' = m
    /\ iters' = iters + 1
    /\ k' = 0
    /\ yielded' = <<>>
    /\ pc' = "get_file"

\* main, line 126: get_last_videos(feed).
CallGetLastVideos ==
    /\ pc = "get_last"
    /\ raised = ""
    /\ StartIter("last", DefaultN)
    /\ UNCHANGED <<caller, config, since, i, url, args, feed, page, lineNo,
                   canonical, doc, videos, j, calls, raised, trace>>

\* The importing program calls list(feed).
ClientIter ==
    /\ pc = "ready"
    /\ raised = ""
    /\ calls < MaxCalls
    /\ calls' = calls + 1
    /\ StartIter("iter", n)
    /\ UNCHANGED <<caller, config, since, i, url, args, feed, page, lineNo,
                   canonical, doc, videos, j, raised, trace>>

\* The importing program calls get_last_videos(feed, m).
ClientGetLast ==
    /\ pc = "ready"
    /\ raised = ""
    /\ calls < MaxCalls
    /\ calls' = calls + 1
    /\ \E m \in 0..MaxN : StartIter("last", m)
    /\ UNCHANGED <<caller, config, since, i, url, args, feed, page, lineNo,
                   canonical, doc, videos, j, raised, trace>>

\* get_file answering from the document of an earlier iteration when there
\* is one, instead of requesting feed_url again.
GetFileCached ==
    /\ pc = "get_file"
    /\ raised = ""
    /\ IF iters > 1
       THEN /\ pc' = "entry"
            /\ UNCHANGED <<trace, doc, raised>>
       ELSE /\ trace' = Append(trace, Event("request", "feed", feed.feed_url))
            /\ \/ /\ DocOf(feed.feed_url) # NoDoc
                  /\ doc' = DocOf(feed.feed_url)
                  /\ pc' = "entry"
                  /\ raised' = raised
               \/ /\ Throw("URLError")
                  /\ doc' = doc
    /\ UNCHANGED <<caller, config, since, i, url, args, feed, page, lineNo,
                   canonical, k, yielded, call, n, videos, j, iters, calls>>

\* get_file with a failed request skipped over: main goes on to the next
\* configured feed.
GetFileOrSkip ==
    /\ pc = "get_file"
    /\ raised = ""
    /\ trace' = Append(trace, Event("request", "feed", feed.feed_url))
    /\ \/ /\ DocOf(feed.feed_url) # NoDoc
          /\ doc' = DocOf(feed.feed_url)
          /\ pc' = "entry"
       \/ /\ pc' = IF caller = "main" THEN "loop" ELSE "ready"
          /\ doc' = doc
    /\ UNCHANGED <<caller, config, since, i, url, args, feed, page, lineNo,
                   canonical, k, yielded, call, n, videos, j, iters, calls,
                   raised>>

\* Feed.__iter__, lines 89-90: get_file and xml_parse.
GetFile ==
    /\ pc = "get_file"
    /\ raised = ""
    /\ trace' = Append(trace, Event("request", "feed", feed.feed_url))
    /\ \/ /\ DocOf(feed.feed_url) # NoDoc
          /\ doc' = DocOf(feed.feed_url)
          /\ pc' = "entry"
          /\ raised' = raised
       \/ /\ Throw("URLError")
          /\ doc' = doc
    /\ UNCHANGED <<caller, config, since, i, url, args, feed, page, lineNo,
                   canonical, k, yielded, call, n, videos, j, iters, calls>>

\* Feed.__iter__, lines 92-100: the next entry is yielded, or raises.
NextEntry ==
    /\ pc = "entry"
    /\ raised = ""
    /\ k < Len(doc)
    /\ LET r == IterEntry(doc[k + 1])
       IN  IF r.err # ""
           THEN Throw(r.err) /\ UNCHANGED <<k, yielded>>
           ELSE /\ yielded' = Append(yielded, r.val)
                /\ k' = k + 1
                /\ UNCHANGED <<pc, raised>>
    /\ UNCHANGED <<caller, config, since, i, url, args, feed, page, lineNo,
                   canonical, doc, call, n, videos, j, iters, calls, trace>>

\* The generator is exhausted: list(feed) returns, or get_last_videos sorts
\* what was yielded and returns its first n (lines 104-105).
StopIteration ==
    /\ pc = "entry"
    /\ raised = ""
    /\ k = Len(doc)
    /\ IF call = "last"
       THEN /\ videos' = get_last_videos(yielded, n)
            /\ j' = 0
       ELSE UNCHANGED <<videos, j>>
    /\ pc' = IF caller = "main" THEN "print" ELSE "ready"
    /\ UNCHANGED <<caller, config, since, i, url, args, feed, page, lineNo,
                   canonical, doc, k, yielded, call, n, iters, calls, raised,
                   trace>>

\* main, lines 126-131: one video of the list, printed if it passes the cutoff.
PrintVideo ==
    /\ pc = "print"
    /\ raised = ""
    /\ j < Len(videos)
    /\ j' = j + 1
    /\ trace' = IF Keep(since, videos[j + 1][1])
                THEN Append(trace, Event("print", "entry", videos[j + 1]))
                ELSE trace
    /\ UNCHANGED <<pc, caller, config, since, i, url, args, feed, page, lineNo,
                   canonical, doc, k, yielded, call, n, videos, iters, calls,
                   raised>>

\* main, lines 133-134.
PrintSeparator ==
    /\ pc = "print"
    /\ raised = ""
    /\ j = Len(videos)
    /\ trace' = Append(trace, Event("print", "sep", <<>>))
    /\ pc' = "loop"
    /\ UNCHANGED <<caller, config, since, i, url, args, feed, page, lineNo,
                   canonical, doc, k, yielded, call, n, videos, j, iters,
                   calls, raised>>

Next ==
    \/ Main
    \/ PrintHeader
    \/ Exit
    \/ FromUrl
    \/ Request
    \/ FeedLine
    \/ EndOfPage
    \/ ReturnChannelId
    \/ FeedInit
    \/ ClientNew
    \/ ClientFromUrl
    \/ CallGetLastVideos
    \/ ClientIter
    \/ ClientGetLast
    \/ GetFile
    \/ NextEntry
    \/ StopIteration
    \/ PrintVideo
    \/ PrintSeparator

Spec == Init /\ [][Next]_vars

(***************************************************************************)
(* The claims.                                                             *)
(***************************************************************************)
Both(a) == a.channel_id # None /\ a.playlist_id # None
Neither(a) == a.channel_id = None /\ a.playlist_id = None
ExactlyOne(a) == ~Both(a) /\ ~Neither(a)

\* The constructor ran on args and raised.
InitFailed == pc = "init" /\ raised # ""
\* The constructor ran on args and returned.
InitDone == feed.set /\ pc # "init"

\* C1, as stated: the constructor raises ValueError when both channel_id and
\* playlist_id are supplied and constructs a Feed whenever at most one of
\* them is supplied, the case of neither included.
C1_AtMostOne ==
    /\ InitFailed => raised = "ValueError" /\ Both(args)
    /\ InitDone => ~Both(args)

\* C1, amended: the constructor raises ValueError when both channel_id and
\* playlist_id are supplied and when neither is, and constructs a Feed
\* when exactly one of them is supplied.
C1_ExactlyOne ==
    /\ InitFailed => raised = "ValueError" /\ (Both(args) \/ Neither(args))
    /\ InitDone => ExactlyOne(args)

\* The constructor was called with neither argument and raised.
C1_Witness == InitFailed /\ Neither(args) /\ raised = "ValueError"

\* C2: Feed(channel_id=c, playlist_id=p) succeeds if and only if exactly one
\* of c, p is not None; on success feed_url is the videos.xml endpoint with
\* query channel_id=c when c was given and playlist_id=p when p was given;
\* otherwise it raises ValueError and the object never gets a feed_url.
C2_FeedUrl ==
    /\ InitDone =>
          /\ ExactlyOne(args)
          /\ args.channel_id # None =>
                feed.feed_url = S_feeds \o S_channel_id \o args.channel_id
          /\ args.playlist_id # None =>
                feed.feed_url = S_feeds \o S_playlist_id \o args.playlist_id
    /\ InitFailed =>
          /\ ~ExactlyOne(args)
          /\ raised = "ValueError"
          /\ ~feed.set /\ feed.feed_url = None

\* A playlist feed was constructed from a playlist id alone.
C2_Witness ==
    /\ InitDone /\ caller = "client" /\ url = None
    /\ args.playlist_id = PL1 /\ args.channel_id = None
    /\ feed.feed_url = S_feeds \o S_playlist_id \o PL1

\* What the claim calls a YouTube playlist URL: http or https, host
\* youtube.com with or without the www. prefix, path playlist?list=ID.
PlaylistPrefixes ==
    {scheme \o www \o S_youtube \o S_playlist :
        scheme \in {S_http, S_https}, www \in {<<>>, S_www}}

IsPlaylistUrl(u) ==
    \E pre \in PlaylistPrefixes :
        Len(u) > Len(pre) /\ SubSeq(u, 1, Len(pre)) = pre

PlaylistIdOf(u) ==
    LET pre == CHOOSE q \in PlaylistPrefixes :
                   Len(u) > Len(q) /\ SubSeq(u, 1, Len(q)) = q
    IN  Drop(u, Len(pre))

\* from_url has requested the page at url for the feed being worked on.
PageRequested ==
    \E m \in 1..Len(trace) :
        /\ trace[m].op = "request" /\ trace[m].what = "page"
        /\ trace[m].feed = i /\ trace[m].val = url

\* from_url(url) has returned a Feed.
FromUrlDone == url # None /\ feed.set /\ pc \notin {"from_url", "request",
                                                   "feed_line", "check", "init"}

\* C3: for every input that is a YouTube playlist URL, from_url returns the
\* playlist feed for its ID without requesting anything to resolve it; for
\* every other URL it requests the page at that URL and returns a channel
\* feed; no playlist URL is treated as a channel.
C3_PlaylistOrChannel ==
    url # None =>
        /\ IsPlaylistUrl(url) =>
              /\ ~PageRequested
              /\ pc \notin {"request", "feed_line", "check"}
              /\ FromUrlDone =>
                    feed.feed_url = S_feeds \o S_playlist_id \o PlaylistIdOf(url)
        /\ ~IsPlaylistUrl(url) =>
              /\ pc \notin {"from_url", "request"} => PageRequested
              /\ FromUrlDone => args.channel_id # None

\* The positions of the feed requests made while working on feed f.
FeedRequests(f) ==
    {m \in 1..Len(trace) :
        trace[m].op = "request" /\ trace[m].what = "feed" /\ trace[m].feed = f}

\* The Feed object of the current pass exists.
Constructed ==
    feed.set /\ pc \in {"get_last", "ready", "get_file", "entry", "print"}

\* C4: constructing a Feed requests nothing from feed_url; feed_url is
\* requested when an iteration starts, once per iteration, so that a Feed
\* iterated k times has been requested k times; in a run of main the
\* feed_url of each configured feed is requested at most once, also after
\* a failure.
C4_LazyUncached ==
    /\ Constructed =>
          /\ Cardinality(FeedRequests(i)) =
                IF pc = "get_file" /\ raised = "" THEN iters - 1 ELSE iters
          /\ \A m \in FeedRequests(i) : trace[m].val = feed.feed_url
    /\ caller = "main" =>
          \A f \in 1..Len(config.feeds) : Cardinality(FeedRequests(f)) <= 1

\* The same Feed was iterated twice and requested twice.
C4_Witness ==
    /\ caller = "client" /\ pc = "ready" /\ iters = 2
    /\ Cardinality(FeedRequests(0)) = 2

\* get_last_videos(yielded, n) has returned videos.
Returned == call = "last" /\ pc \notin {"get_file", "entry"}

Occurrences(s, x) == Cardinality({m \in 1..Len(s) : s[m] = x})

\* The entries of the feed that the result leaves out (as a set of values).
LeftOut ==
    {yielded[m] : m \in {q \in 1..Len(yielded) :
        Occurrences(yielded, yielded[q]) > Occurrences(videos, yielded[q])}}

\* C5: the result of get_last_videos(feed, n) has length min(n, number of
\* entries), is in non-increasing order of published, is a sub-multiset of
\* the feed's entries, and no entry left out is published strictly later
\* than an entry returned.
C5_MostRecent ==
    Returned =>
        /\ Len(videos) = IF n < Len(yielded) THEN n ELSE Len(yielded)
        /\ \A a, b \in 1..Len(videos) : a < b => videos[a][1] >= videos[b][1]
        /\ \A m \in 1..Len(videos) :
              Occurrences(videos, videos[m]) <= Occurrences(yielded, videos[m])
        /\ \A x \in LeftOut : \A m \in 1..Len(videos) : ~(x[1] > videos[m][1])

\* Two of seven entries were asked for, and entries were left out.
C5_Witness ==
    /\ Returned /\ n = 2 /\ Len(yielded) = 7 /\ Len(videos) = 2
    /\ LeftOut # {}

\* What main has printed of the entries of feed f, in order.
Printed(f) ==
    LET sel == SelectSeq(trace, LAMBDA e :
                   e.op = "print" /\ e.what = "entry" /\ e.feed = f)
    IN  [m \in 1..Len(sel) |-> sel[m].val]

PassesCutoff(v) == since.none \/ v[1] >= since.at

\* C6: main prints an entry of a feed if and only if it is among the
\* entries get_last_videos returned (the 5 most recent) and no cutoff is
\* configured or its published timestamp is >= the cutoff; at most 5 are
\* printed per feed, most recent first.
C6_Cutoff ==
    (caller = "main" /\ pc = "print") =>
        /\ Printed(i) = SelectSeq(Take(videos, j), PassesCutoff)
        /\ Len(Printed(i)) <= 5
        /\ \A m \in 1..Len(Printed(i)) : PassesCutoff(Printed(i)[m])
        /\ \A a, b \in 1..Len(Printed(i)) :
              a < b => Printed(i)[a][1] >= Printed(i)[b][1]

\* A feed is done printing: an entry published exactly at the cutoff was
\* printed and an older one of the five was not.
C6_Witness ==
    /\ caller = "main" /\ pc = "print" /\ j = Len(videos) /\ ~since.none
    /\ \E m \in 1..Len(Printed(i)) : Printed(i)[m][1] = since.at
    /\ \E m \in 1..Len(videos) : videos[m][1] < since.at

\* C9: what main prints for a feed (get_last_videos, then the cutoff) is
\* the 5 most recent of the feed's entries that pass the cutoff, in the
\* same order.
C9_FilterCommutes ==
    (caller = "main" /\ pc = "print" /\ j = Len(videos)) =>
        Printed(i) = get_last_videos(SelectSeq(yielded, PassesCutoff), 5)

\* A feed of more than 5 entries, some of the 5 most recent cut off.
C9_Witness ==
    /\ caller = "main" /\ pc = "print" /\ j = Len(videos)
    /\ Len(yielded) > 5 /\ Len(videos) = 5
    /\ Len(Printed(i)) \in 1..4

\* An entry as the claim describes it: exactly one title, one link and one
\* published element.
OneOfEach(e) == Len(e.title) = 1 /\ Len(e.link) = 1 /\ Len(e.published) = 1

\* An entry whose three fields can be extracted: one of each element, the
\* link with an href attribute, the published text a timestamp.
WellFormed(e) ==
    /\ OneOfEach(e)
    /\ \E m \in 1..Len(e.link[1].attrs) : e.link[1].attrs[m][1] = "href"
    /\ fromisoformat(get_node_text(e.published[1].children)) # -1

\* (published, title, url) of a well-formed entry.
TripleOf(e) ==
    <<fromisoformat(get_node_text(e.published[1].children)),
      get_node_text(e.title[1].children),
      Get(e.link[1].attrs, "href")>>

\* An iteration of the feed is under way (k entries yielded) or over.
Iterated == iters > 0 /\ pc \in {"entry", "ready", "print"}

\* C7, as stated: iteration yields one triple per entry, in document order,
\* with the entry's title text, its link's href and its parsed published
\* timestamp, for a document whose entries each hold exactly one title, one
\* link and one published element; it raises at the first entry that has
\* zero or several of one of them, and only there.
C7_OneOfEach ==
    Iterated =>
        /\ k <= Len(doc) /\ Len(yielded) = k
        /\ \A m \in 1..k : OneOfEach(doc[m]) /\ yielded[m] = TripleOf(doc[m])
        /\ pc \in {"ready", "print"} => k = Len(doc)
        /\ (pc = "entry" /\ raised # "") => k < Len(doc) /\ ~OneOfEach(doc[k + 1])

\* C7, amended: iteration yields one triple per entry, in document order,
\* with the entry's title text, its link's href and its parsed published
\* timestamp, for a document whose entries each hold exactly one title, one
\* link that has an href attribute and one published element whose text is
\* an ISO timestamp; it raises at the first entry that is not so, without
\* yielding a triple for it.
C7_Extract ==
    Iterated =>
        /\ k <= Len(doc) /\ Len(yielded) = k
        /\ \A m \in 1..k : WellFormed(doc[m]) /\ yielded[m] = TripleOf(doc[m])
        /\ pc \in {"ready", "print"} => k = Len(doc)
        /\ (pc = "entry" /\ raised # "") =>
              /\ k < Len(doc) /\ ~WellFormed(doc[k + 1])
              /\ raised \in {"ValueError", "KeyError"}

\* The iteration yielded the first entry and raised at the second, which
\* has two title elements.
C7_Witness ==
    /\ Iterated /\ pc = "entry" /\ raised = "ValueError"
    /\ k = 1 /\ Len(yielded) = 1 /\ Len(doc[2].title) = 2

\* A start tag that is a canonical link.
IsCanonicalLink(t) ==
    /\ t.tag = "link"
    /\ \E m \in 1..Len(t.attrs) :
          /\ t.attrs[m] = <<"rel", S_canonical>>
          /\ \A q \in (m + 1)..Len(t.attrs) : t.attrs[q][1] # "rel"

\* The positions (line, tag) of the canonical links of the first upto lines.
CanonicalLinks(pg, upto) ==
    UNION {{<<line, m>> : m \in {q \in 1..Len(pg[line]) :
                                    IsCanonicalLink(pg[line][q])}} :
           line \in 1..upto}

\* The href of the last canonical link of the first upto lines; None when
\* there is no such link or it has no href.
HrefUpTo(pg, upto) ==
    IF CanonicalLinks(pg, upto) = {} THEN None
    ELSE LET last == CHOOSE a \in CanonicalLinks(pg, upto) :
                         \A b \in CanonicalLinks(pg, upto) :
                             b[1] < a[1] \/ (b[1] = a[1] /\ b[2] <= a[2])
             attrs == pg[last[1]][last[2]].attrs
         IN  IF Has(attrs, "href") THEN Get(attrs, "href") ELSE None

\* The lines after which a canonical link with a non-empty href is known.
StopLines(pg) == {line \in 1..Len(pg) : Truthy(HrefUpTo(pg, line))}

\* The part of s after its last "/".
AfterLastSlash(s) ==
    LET slashes == {m \in 1..Len(s) : s[m] = "/"}
    IN  IF slashes = {} THEN s
        ELSE Drop(s, CHOOSE m \in slashes : \A q \in slashes : q <= m)

\* get_channel_id(url) has received the page and is reading it, or is done.
Resolving ==
    url # None /\ MatchPlaylist(url) = None /\ pc \notin {"from_url", "request"}

Of(f) == {m \in 1..Len(trace) : trace[m].feed = f}

IsHeader(m) == trace[m].op = "print" /\ trace[m].what = "header"
IsEntry(m) == trace[m].op = "print" /\ trace[m].what = "entry"
IsSeparator(m) == trace[m].op = "print" /\ trace[m].what = "sep"
IsRequest(m) == trace[m].op = "request"

\* C10: main works through the configured feeds in order; for each feed the
\* header is printed before any request for it, its entries are all
\* fetched, parsed and sorted before the first of them is printed, and the
\* separator comes after its last entry; when resolving, fetching or
\* parsing feed i fails, the run ends there: the header of feed i is
\* printed, none of its entries nor its separator is, and nothing is
\* printed or requested for a later feed.
C10_LinearPipeline ==
    caller = "main" =>
        /\ \A a, b \in 1..Len(trace) : a < b => trace[a].feed <= trace[b].feed
        /\ \A m \in 1..Len(trace) : trace[m].feed \in 1..i
        /\ \A f \in 1..i :
              /\ \E h \in Of(f) :
                    /\ IsHeader(h) /\ trace[h].val = config.feeds[f]
                    /\ \A m \in Of(f) : h <= m
              /\ \A a, b \in Of(f) :
                    /\ (IsEntry(a) /\ IsRequest(b)) => b < a
                    /\ (IsSeparator(a) /\ a # b) => b < a
              /\ f < i => \E m \in Of(f) : IsSeparator(m)
        /\ (i > 0 /\ \E m \in Of(i) : IsEntry(m) \/ IsSeparator(m)) =>
              /\ pc \in {"print", "loop", "exit"}
              /\ k = Len(doc) /\ Len(yielded) = Len(doc)
              /\ videos = get_last_videos(yielded, DefaultN)
        /\ raised # "" =>
              /\ ~ENABLED Next
              /\ \A m \in Of(i) : ~IsEntry(m) /\ ~IsSeparator(m)
              /\ i > 0 => pc \in {"request", "feed_line", "check", "get_file",
                                 "entry"}

\* The first feed was printed with entries and separator; the second
\* failed to parse after its header and its requests.
C10_Witness ==
    /\ caller = "main" /\ i = 2 /\ raised # "" /\ pc = "entry"
    /\ \E m \in Of(1) : IsEntry(m)
    /\ \E m \in Of(1) : IsSeparator(m)
    /\ \E m \in Of(2) : IsRequest(m)

====
